---- MODULE Spec2Model ----
(***************************************************************************)
(* Model of cgtools.fastmath.dot (matmat, matvec) and of                   *)
(* cgtools.vector.transform / homogenize / dehomogenize.                   *)
(*                                                                         *)
(* An array is a record [shape, data]: shape is the tuple of dimension     *)
(* sizes, data the elements in C (row-major) order.  Elements are          *)
(* integers, so products are exact; the quotients of dehomogenize are      *)
(* reduced fractions <<num, den>>.  Indices are 0-based as in numpy.       *)
(***************************************************************************)
EXTENDS Integers, Sequences, FiniteSets, TLC

VARIABLES fn, a, b, v, M, w,            \* the called function and its arguments
          matrices, vectors,              \* the parameters of matvec
          a_contig, b_contig,             \* locals of matmat
          matrices_contig, vectors_contig,\* locals of matvec
          kout,                           \* the value a native kernel returned
          v1,                             \* transform: the value matvec returned
          pc, ret, raisedBy, events

inputs == <<fn, a, b, v, M, w>>
params == <<matrices, vectors>>
locals == <<a_contig, b_contig, matrices_contig, vectors_contig, kout, v1>>
vars == <<inputs, params, locals, pc, ret, raisedBy, events>>

(* ---------------------------- bounds ----------------------------------- *)

\* every dimension of an input array has a size in 1..MaxDim
MaxDim == 2
\* the inputs are filled by Fill with a seed in 0..MaxSeed
MaxSeed == 1
\* transform's fill value w ranges over 0..MaxW
MaxW == 2

Dims == 1..MaxDim
Seeds == 0..MaxSeed

\* leading (batch) shapes of the inputs: none, one axis, two axes
LeadShapes == {<<>>} \cup {<<n>> : n \in Dims} \cup {<<n, m>> : n, m \in Dims}

(* ------------------------- numpy arrays -------------------------------- *)

None == [shape |-> <<>>, data |-> <<>>]

RECURSIVE Prod(_)
Prod(s) == IF s = <<>> THEN 1 ELSE Head(s) * Prod(Tail(s))

RECURSIVE SumSeq(_)
SumSeq(s) == IF s = <<>> THEN 0 ELSE Head(s) + SumSeq(Tail(s))

ndim(x) == Len(x.shape)

\* x.shape[-k]
ShapeFromEnd(x, k) == x.shape[Len(x.shape) - k + 1]

\* x.shape[:-k]
ShapeButLast(x, k) == SubSeq(x.shape, 1, Len(x.shape) - k)

Reverse(s) == [i \in 1..Len(s) |-> s[Len(s) - i + 1]]

\* s with its last two entries exchanged
SwapLast2(s) ==
    [i \in 1..Len(s) |-> IF i = Len(s) THEN s[Len(s) - 1]
                         ELSE IF i = Len(s) - 1 THEN s[Len(s)]
                         ELSE s[i]]

\* the index tuple of the element at flat offset k of an array of that shape
RECURSIVE Unravel(_, _)
Unravel(k, shape) ==
    IF shape = <<>> THEN <<>>
    ELSE LET sz == Prod(Tail(shape))
         IN  <<k \div sz>> \o Unravel((k % sz), Tail(shape))

\* the flat offset of the element at index tuple idx
RECURSIVE Ravel(_, _)
Ravel(idx, shape) ==
    IF shape = <<>> THEN 0
    ELSE LET n == Len(shape)
         IN  Ravel(SubSeq(idx, 1, n - 1), SubSeq(shape, 1, n - 1)) * shape[n] + idx[n]

At(x, idx) == x.data[Ravel(idx, x.shape) + 1]

\* the array of that shape whose element at idx is F(idx)
MkArray(shape, F(_)) ==
    [shape |-> shape, data |-> [k \in 1..Prod(shape) |-> F(Unravel(k - 1, shape))]]

\* the test data of the inputs: the k-th element (in C order) is k * (k + seed)
\* + seed, so the elements are pairwise distinct positive integers and a
\* transposed or shifted result differs from the right one
Fill(shape, seed) ==
    [shape |-> shape,
     data  |-> [k \in 1..Prod(shape) |-> k * (k + seed) + seed]]

\* np.eye(n): the n x n identity matrix
Eye(n) == MkArray(<<n, n>>, LAMBDA idx : IF idx[1] = idx[2] THEN 1 ELSE 0)

\* x.reshape(shape) of a C-contiguous array: same elements, same order
ReshapeOk(x, shape) == Prod(shape) = Prod(x.shape)
reshape(x, shape) == [shape |-> shape, data |-> x.data]

\* x.reshape(-1, d1, ..., dk): the first axis is inferred
reshape_infer(x, tail) == reshape(x, <<Prod(x.shape) \div Prod(tail)>> \o tail)

\* x.swapaxes(-1, -2)
swapaxes(x) == MkArray(SwapLast2(x.shape), LAMBDA idx : At(x, SwapLast2(idx)))

\* x.T: all axes reversed
T(x) == MkArray(Reverse(x.shape), LAMBDA idx : At(x, Reverse(idx)))

\* numpy.dot raises ValueError (shapes not aligned) unless the last axis of x
\* has the size of the second-to-last axis of y (of the only axis of a 1-d y)
DotAligned(x, y) ==
    IF ndim(y) = 1 THEN ShapeFromEnd(x, 1) = y.shape[1]
    ELSE ShapeFromEnd(x, 1) = ShapeFromEnd(y, 2)

\* numpy.dot(x, y) for ndim(x) >= 1, ndim(y) >= 1:
\*   dot(x, y)[i, k, m] = sum_l x[i, l] * y[k, l, m]   (i, k index tuples)
np_dot(x, y) ==
    LET q  == ShapeFromEnd(x, 1)
        xl == ShapeButLast(x, 1)
        nx == Len(xl)
    IN  IF ndim(y) = 1
        THEN MkArray(xl, LAMBDA idx :
                 SumSeq([l \in 1..q |-> At(x, idx \o <<l - 1>>) * At(y, <<l - 1>>)]))
        ELSE LET yl == ShapeButLast(y, 2)
                 ny == Len(yl)
             IN  MkArray(xl \o yl \o <<ShapeFromEnd(y, 1)>>, LAMBDA idx :
                     LET i == SubSeq(idx, 1, nx)
                         k == SubSeq(idx, nx + 1, nx + ny)
                         m == idx[nx + ny + 1]
                     IN  SumSeq([l \in 1..q |->
                             At(x, i \o <<l - 1>>) * At(y, k \o <<l - 1, m>>)]))

(* --------------------- the native batched kernels ---------------------- *)

\* _fastmath_ext.matmat(a_contig, b_contig) on (n, p, q) and (n', q, r):
\* batch counts must be equal; block i of the result is a_contig[i] . b_contig[i]
ext_matmat_ok(x, y) == x.shape[1] = y.shape[1]
ext_matmat(x, y) ==
    MkArray(<<x.shape[1], x.shape[2], y.shape[3]>>, LAMBDA idx :
        SumSeq([l \in 1..x.shape[3] |->
            At(x, <<idx[1], idx[2], l - 1>>) * At(y, <<idx[1], l - 1, idx[3]>>)]))

\* _fastmath_ext.matvec(matrices_contig, vectors_contig) on (n, p, q) and (n', q)
ext_matvec_ok(x, y) == x.shape[1] = y.shape[1]
ext_matvec(x, y) ==
    MkArray(<<x.shape[1], x.shape[2]>>, LAMBDA idx :
        SumSeq([l \in 1..x.shape[3] |->
            At(x, <<idx[1], idx[2], l - 1>>) * At(y, <<idx[1], l - 1>>)]))

(* ------------------------------ matmat --------------------------------- *)

\* an exception leaves the call (no function of the model catches one)
Raise(by) ==
    /\ pc' = "raised"
    /\ raisedBy' = by
    /\ ret' = None

\* the product without the final swapaxes: np.dot(b.swapaxes(-1, -2), a.T)
matmat_lone_a_no_swap(x, y) == np_dot(swapaxes(y), T(x))

\* matmat line 23: np.dot(b.swapaxes(-1, -2), a.T).swapaxes(-1, -2)
matmat_lone_a(x, y) == swapaxes(np_dot(swapaxes(y), T(x)))

\* an output shape that takes its rows from b: a.shape[:-2] + (b.shape[-2], b.shape[-1])
matmat_out_shape_rows_b(x, y) ==
    ShapeButLast(x, 2) \o <<ShapeFromEnd(y, 2), ShapeFromEnd(y, 1)>>

\* an output shape that takes its leading dimensions from b
matmat_out_shape_lead_b(x, y) ==
    ShapeButLast(y, 2) \o <<ShapeFromEnd(x, 2), ShapeFromEnd(y, 1)>>

\* matmat line 31: a.shape[:-2] + (a.shape[-2], b.shape[-1])
matmat_out_shape(x, y) ==
    ShapeButLast(x, 2) \o <<ShapeFromEnd(x, 2), ShapeFromEnd(y, 1)>>

\* lines 18-20: both operands are single matrices
MatmatSingle ==
    /\ pc = "matmat"
    /\ ndim(a) = 2 /\ ndim(b) = 2
    /\ events' = Append(events, "np.dot")
    /\ IF DotAligned(a, b)
       THEN /\ ret' = np_dot(a, b)
            /\ pc' = "done"
            /\ UNCHANGED raisedBy
       ELSE Raise("np.dot")
    /\ UNCHANGED <<inputs, params, locals>>

\* lines 21-23: a is a single matrix, b has rank 3
MatmatLoneA ==
    /\ pc = "matmat"
    /\ ndim(a) = 2 /\ ndim(b) = 3
    /\ events' = Append(events, "np.dot")
    /\ IF DotAligned(swapaxes(b), T(a))
       THEN /\ ret' = matmat_lone_a(a, b)
            /\ pc' = "done"
            /\ UNCHANGED raisedBy
       ELSE Raise("np.dot")
    /\ UNCHANGED <<inputs, params, locals>>

\* lines 24-26: a has rank 3, b is a single matrix
MatmatLoneB ==
    /\ pc = "matmat"
    /\ ndim(a) = 3 /\ ndim(b) = 2
    /\ events' = Append(events, "np.dot")
    /\ IF DotAligned(a, b)
       THEN /\ ret' = np_dot(a, b)
            /\ pc' = "done"
            /\ UNCHANGED raisedBy
       ELSE Raise("np.dot")
    /\ UNCHANGED <<inputs, params, locals>>

\* the three early returns of lines 18-26 were not taken
MatmatGeneral(x, y) ==
    /\ ~(ndim(x) = 2 /\ ndim(y) = 2)
    /\ ~(ndim(x) = 2 /\ ndim(y) = 3)
    /\ ~(ndim(x) = 3 /\ ndim(y) = 2)

\* a check that compares with b.shape[-1] instead of b.shape[-2]
matmat_mismatch_cols(x, y) == ShapeFromEnd(x, 1) # ShapeFromEnd(y, 1)

\* line 27: a.shape[-1] != b.shape[-2]
matmat_mismatch(x, y) == ShapeFromEnd(x, 1) # ShapeFromEnd(y, 2)

\* lines 27-28: the inner dimensions differ
MatmatShapeError ==
    /\ pc = "matmat"
    /\ MatmatGeneral(a, b)
    /\ matmat_mismatch(a, b)
    /\ Raise("matmat")
    /\ UNCHANGED <<inputs, params, locals, events>>

\* lines 29-30: flatten the leading dimensions of both operands
MatmatContig ==
    /\ pc = "matmat"
    /\ MatmatGeneral(a, b)
    /\ ~matmat_mismatch(a, b)
    /\ a_contig' = reshape_infer(a, <<ShapeFromEnd(a, 2), ShapeFromEnd(a, 1)>>)
    /\ b_contig' = reshape_infer(b, <<ShapeFromEnd(b, 2), ShapeFromEnd(b, 1)>>)
    /\ events' = Append(events, "reshape")
    /\ pc' = "matmat_kernel"
    /\ UNCHANGED <<inputs, params, matrices_contig, vectors_contig, kout, v1,
                   ret, raisedBy>>

\* line 31: _fastmath_ext.matmat(a_contig, b_contig)
MatmatKernel ==
    /\ pc = "matmat_kernel"
    /\ events' = Append(events, "kernel")
    /\ IF ext_matmat_ok(a_contig, b_contig)
       THEN /\ kout' = ext_matmat(a_contig, b_contig)
            /\ pc' = "matmat_return"
            /\ UNCHANGED <<ret, raisedBy>>
       ELSE /\ Raise("kernel")
            /\ UNCHANGED kout
    /\ UNCHANGED <<inputs, params, a_contig, b_contig,
                   matrices_contig, vectors_contig, v1>>

\* line 31: .reshape(a.shape[:-2] + (a.shape[-2], b.shape[-1]))
MatmatReturn ==
    /\ pc = "matmat_return"
    /\ events' = Append(events, "reshape")
    /\ IF ReshapeOk(kout, matmat_out_shape(a, b))
       THEN /\ ret' = reshape(kout, matmat_out_shape(a, b))
            /\ pc' = "done"
            /\ UNCHANGED raisedBy
       ELSE Raise("reshape")
    /\ UNCHANGED <<inputs, params, locals>>

(* ------------------------------ matvec --------------------------------- *)

\* a check that compares matrices.shape[-2] instead of matrices.shape[-1]
matvec_first_check_rows(ms, vs) == ShapeFromEnd(ms, 2) # ShapeFromEnd(vs, 1)

\* line 45: matrices.shape[-1] != vectors.shape[-1]
matvec_first_check(ms, vs) == ShapeFromEnd(ms, 1) # ShapeFromEnd(vs, 1)

\* line 56: matrices.shape[-1] != vectors.shape[-1]
matvec_second_check(ms, vs) == ShapeFromEnd(ms, 1) # ShapeFromEnd(vs, 1)

\* line 52: np.dot(matrices, vectors.T).T
matvec_lone_matrix(ms, vs) == T(np_dot(ms, T(vs)))

\* an output shape that takes the columns: matrices.shape[:-2] + (matrices.shape[-1], )
matvec_out_shape_cols(ms) == ShapeButLast(ms, 2) \o <<ShapeFromEnd(ms, 1)>>

\* line 60: matrices.shape[:-2] + (matrices.shape[-2], )
matvec_out_shape(ms) == ShapeButLast(ms, 2) \o <<ShapeFromEnd(ms, 2)>>

\* matvec returns val: to the caller of the model's call, or into transform
Return(val) ==
    IF fn = "transform"
    THEN /\ v1' = val
         /\ pc' = "transform_return"
         /\ UNCHANGED <<ret, raisedBy>>
    ELSE /\ ret' = val
         /\ pc' = "done"
         /\ UNCHANGED <<v1, raisedBy>>

\* lines 45-46: the first compatibility check
MatvecShapeError ==
    /\ pc = "matvec"
    /\ matvec_first_check(matrices, vectors)
    /\ Raise("matvec_first")
    /\ UNCHANGED <<inputs, params, locals, events>>

\* lines 47-49: one matrix, one vector
MatvecSingle ==
    /\ pc = "matvec"
    /\ ~matvec_first_check(matrices, vectors)
    /\ ndim(matrices) = 2 /\ ndim(vectors) = 1
    /\ events' = Append(events, "np.dot")
    /\ IF DotAligned(matrices, vectors)
       THEN Return(np_dot(matrices, vectors))
       ELSE Raise("np.dot") /\ UNCHANGED v1
    /\ UNCHANGED <<inputs, params, a_contig, b_contig,
                   matrices_contig, vectors_contig, kout>>

\* lines 50-52: one matrix, several vectors
MatvecLoneMatrix ==
    /\ pc = "matvec"
    /\ ~matvec_first_check(matrices, vectors)
    /\ ~(ndim(matrices) = 2 /\ ndim(vectors) = 1)
    /\ ndim(matrices) = 2
    /\ events' = Append(events, "np.dot")
    /\ IF DotAligned(matrices, T(vectors))
       THEN Return(matvec_lone_matrix(matrices, vectors))
       ELSE Raise("np.dot") /\ UNCHANGED v1
    /\ UNCHANGED <<inputs, params, a_contig, b_contig,
                   matrices_contig, vectors_contig, kout>>

\* lines 53-55: several matrices, one vector
MatvecLoneVector ==
    /\ pc = "matvec"
    /\ ~matvec_first_check(matrices, vectors)
    /\ ndim(matrices) # 2
    /\ ndim(vectors) = 1
    /\ events' = Append(events, "np.dot")
    /\ IF DotAligned(matrices, vectors)
       THEN Return(np_dot(matrices, vectors))
       ELSE Raise("np.dot") /\ UNCHANGED v1
    /\ UNCHANGED <<inputs, params, a_contig, b_contig,
                   matrices_contig, vectors_contig, kout>>

\* lines 56-59: the second compatibility check, then flatten the leading
\* dimensions of both operands
MatvecContig ==
    /\ pc = "matvec"
    /\ ~matvec_first_check(matrices, vectors)
    /\ ndim(matrices) # 2
    /\ ndim(vectors) # 1
    /\ IF matvec_second_check(matrices, vectors)
       THEN /\ Raise("matvec_second")
            /\ UNCHANGED <<matrices_contig, vectors_contig, events>>
       ELSE /\ matrices_contig' = reshape_infer(matrices,
                   <<ShapeFromEnd(matrices, 2), ShapeFromEnd(matrices, 1)>>)
            /\ vectors_contig' = reshape_infer(vectors, <<ShapeFromEnd(vectors, 1)>>)
            /\ events' = Append(events, "reshape")
            /\ pc' = "matvec_kernel"
            /\ UNCHANGED <<ret, raisedBy>>
    /\ UNCHANGED <<inputs, params, a_contig, b_contig, kout, v1>>

\* line 60: _fastmath_ext.matvec(matrices_contig, vectors_contig)
MatvecKernel ==
    /\ pc = "matvec_kernel"
    /\ events' = Append(events, "kernel")
    /\ IF ext_matvec_ok(matrices_contig, vectors_contig)
       THEN /\ kout' = ext_matvec(matrices_contig, vectors_contig)
            /\ pc' = "matvec_return"
            /\ UNCHANGED <<ret, raisedBy>>
       ELSE /\ Raise("kernel")
            /\ UNCHANGED kout
    /\ UNCHANGED <<inputs, params, a_contig, b_contig,
                   matrices_contig, vectors_contig, v1>>

\* line 60: .reshape(matrices.shape[:-2] + (matrices.shape[-2], ))
MatvecReturn ==
    /\ pc = "matvec_return"
    /\ events' = Append(events, "reshape")
    /\ IF ReshapeOk(kout, matvec_out_shape(matrices))
       THEN Return(reshape(kout, matvec_out_shape(matrices)))
       ELSE Raise("reshape") /\ UNCHANGED v1
    /\ UNCHANGED <<inputs, params, a_contig, b_contig,
                   matrices_contig, vectors_contig, kout>>

(* ----------------------------- transform ------------------------------- *)

Abs(x) == IF x < 0 THEN -x ELSE x

RECURSIVE Gcd(_, _)
Gcd(x, y) == IF y = 0 THEN x ELSE Gcd(y, x % y)

\* the float quotient x / y as a reduced fraction <<num, den>>, den > 0;
\* a division by zero gives <<1, 0>> (inf), <<-1, 0>> (-inf) or <<0, 0>> (nan)
Quot(x, y) ==
    IF y = 0 THEN <<(IF x > 0 THEN 1 ELSE IF x < 0 THEN -1 ELSE 0), 0>>
    ELSE LET g == Gcd(Abs(x), Abs(y))
             s == IF y < 0 THEN -1 ELSE 1
         IN  <<(s * x) \div g, (s * y) \div g>>

\* homogenize(v, value) for a scalar value (line 73): np.insert at the end
\* of the last axis
homogenize(x, value) ==
    LET d == ShapeFromEnd(x, 1)
    IN  MkArray(ShapeButLast(x, 1) \o <<d + 1>>, LAMBDA idx :
            IF idx[Len(idx)] = d THEN value ELSE At(x, idx))

\* dehomogenize(a) (lines 85-86): a[..., :-1] / a[..., np.newaxis, -1]
dehomogenize(x) ==
    LET d == ShapeFromEnd(x, 1)
    IN  MkArray(ShapeButLast(x, 1) \o <<d - 1>>, LAMBDA idx :
            Quot(At(x, idx), At(x, SubSeq(idx, 1, Len(idx) - 1) \o <<d - 1>>)))

\* line 118: M.shape[-1] == v.shape[-1] + 1
transform_homogeneous(x, m) == ShapeFromEnd(m, 1) = ShapeFromEnd(x, 1) + 1

\* lines 118-119: call matvec(M, hom(v)); hom is called without w, so its
\* value parameter takes its default, 1
TransformHom ==
    /\ pc = "transform"
    /\ transform_homogeneous(v, M)
    /\ matrices' = M
    /\ vectors' = homogenize(v, 1)
    /\ pc' = "matvec"
    /\ UNCHANGED <<inputs, locals, ret, raisedBy, events>>

\* lines 123-124: call matvec(M, v)
TransformPlain ==
    /\ pc = "transform"
    /\ ~transform_homogeneous(v, M)
    /\ matrices' = M
    /\ vectors' = v
    /\ pc' = "matvec"
    /\ UNCHANGED <<inputs, locals, ret, raisedBy, events>>

\* lines 120-122 after matvec(M, hom(v)), line 124 after matvec(M, v)
TransformReturn ==
    /\ pc = "transform_return"
    /\ ret' = IF transform_homogeneous(v, M)
                 /\ ShapeFromEnd(v1, 1) = ShapeFromEnd(v, 1) + 1
              THEN dehomogenize(v1)
              ELSE v1
    /\ pc' = "done"
    /\ UNCHANGED <<inputs, params, locals, raisedBy, events>>

(* -------------------------- specifications ----------------------------- *)

InitLocals ==
    /\ a_contig = None /\ b_contig = None
    /\ matrices_contig = None /\ vectors_contig = None
    /\ kout = None /\ v1 = None /\ ret = None
    /\ raisedBy = "" /\ events = <<>>

\* matmat(a, b) on matrices or batches of matrices
InitMatmat ==
    /\ fn = "matmat"
    /\ \E la \in LeadShapes, lb \in LeadShapes, p \in Dims, q \in Dims,
          q2 \in Dims, r \in Dims, s \in Seeds :
          /\ a = Fill(la \o <<p, q>>, s)
          /\ b = Fill(lb \o <<q2, r>>, s + 1)
    /\ matrices = None /\ vectors = None /\ v = None /\ M = None /\ w = 0
    /\ pc = "matmat"
    /\ InitLocals

NextMatmat ==
    \/ MatmatSingle
    \/ MatmatLoneA
    \/ MatmatLoneB
    \/ MatmatShapeError
    \/ MatmatContig
    \/ MatmatKernel
    \/ MatmatReturn


\* matvec(matrices, vectors) on a matrix or a batch of matrices and a
\* vector or a batch of vectors
InitMatvec ==
    /\ fn = "matvec"
    /\ \E lm \in LeadShapes, lv \in LeadShapes, p \in Dims, q \in Dims,
          q2 \in Dims, s \in Seeds :
          /\ \/ matrices = Fill(lm \o <<p, q>>, s)
             \/ lm = <<>> /\ p = q /\ matrices = Eye(p)
          /\ vectors = Fill(lv \o <<q2>>, s + 1)
    /\ a = None /\ b = None /\ v = None /\ M = None /\ w = 0
    /\ pc = "matvec"
    /\ InitLocals

NextMatvec ==
    \/ MatvecShapeError
    \/ MatvecSingle
    \/ MatvecLoneMatrix
    \/ MatvecLoneVector
    \/ MatvecContig
    \/ MatvecKernel
    \/ MatvecReturn

\* one call of matmat or of matvec
InitDot == InitMatmat \/ InitMatvec

NextDot == NextMatmat \/ NextMatvec

SpecDot == InitDot /\ [][NextDot]_vars

\* transform(v, M, w)
InitTransform ==
    /\ fn = "transform"
    /\ \E lm \in LeadShapes, lv \in LeadShapes, p \in Dims, q \in Dims,
          d \in Dims, s \in Seeds :
          /\ M = Fill(lm \o <<p, q>>, s)
          /\ v = Fill(lv \o <<d>>, s + 1)
    /\ w \in 0..MaxW
    /\ a = None /\ b = None /\ matrices = None /\ vectors = None
    /\ pc = "transform"
    /\ InitLocals

NextTransform ==
    \/ TransformHom
    \/ TransformPlain
    \/ TransformReturn
    \/ NextMatvec

SpecTransform == InitTransform /\ [][NextTransform]_vars

(* ------------------------ claims: vocabulary --------------------------- *)

InEvents(e) == \E i \in 1..Len(events) : events[i] = e

\* the i-th block (0-based, in C order) of x, a block being the last k axes
Block(x, i, k) ==
    LET bs == SubSeq(x.shape, Len(x.shape) - k + 1, Len(x.shape))
        sz == Prod(bs)
    IN  [shape |-> bs, data |-> SubSeq(x.data, i * sz + 1, (i + 1) * sz)]

\* the number of blocks of x
Count(x, k) == Prod(ShapeButLast(x, k))

\* the product of two single matrices, entry by entry
NaiveMatMul(x, y) ==
    [shape |-> <<x.shape[1], y.shape[2]>>,
     data  |-> [n \in 1..(x.shape[1] * y.shape[2]) |->
                  LET i == (n - 1) \div y.shape[2]
                      j == (n - 1) % y.shape[2]
                  IN  SumSeq([l \in 1..x.shape[2] |->
                          x.data[i * x.shape[2] + l] * y.data[(l - 1) * y.shape[2] + j + 1]])]]

\* the product of a single matrix and a single vector, entry by entry
NaiveMatVec(x, u) ==
    [shape |-> <<x.shape[1]>>,
     data  |-> [n \in 1..x.shape[1] |->
                  SumSeq([l \in 1..x.shape[2] |->
                      x.data[(n - 1) * x.shape[2] + l] * u.data[l]])]]

\* numpy broadcasting of two shapes, aligned at their last axes
PadLeft(s, n) == [i \in 1..n |-> IF i <= n - Len(s) THEN 1 ELSE s[i - (n - Len(s))]]
MaxLen(s, t) == IF Len(s) >= Len(t) THEN Len(s) ELSE Len(t)
BroadcastOk(s, t) ==
    LET n == MaxLen(s, t)
    IN  \A i \in 1..n :
           \/ PadLeft(s, n)[i] = PadLeft(t, n)[i]
           \/ PadLeft(s, n)[i] = 1
           \/ PadLeft(t, n)[i] = 1
BroadcastShape(s, t) ==
    LET n == MaxLen(s, t)
    IN  [i \in 1..n |-> IF PadLeft(s, n)[i] = 1 THEN PadLeft(t, n)[i] ELSE PadLeft(s, n)[i]]

\* every block of r is the product of the matching blocks of x and y
BlocksAreProducts(r, x, y) ==
    \A i \in 0..(Count(r, 2) - 1) :
        Block(r, i, 2) = NaiveMatMul(Block(x, i, 2), Block(y, i, 2))

(* ------------------------------ claims --------------------------------- *)

\* the case of C1: both operands batched, equal leading shapes, matching inner dimensions
C1_pre ==
    /\ fn = "matmat"
    /\ ndim(a) >= 3 /\ ndim(b) >= 3
    /\ ShapeButLast(a, 2) = ShapeButLast(b, 2)
    /\ ShapeFromEnd(a, 1) = ShapeFromEnd(b, 2)

\* C1: matmat on two batched operands with equal leading shapes and matching
\* inner dimensions returns; the result has a's leading shape followed by
\* (p, r), and its block at every batch index i is the product a[i] . b[i].
C1_MatmatEqualShape ==
    C1_pre =>
        /\ pc # "raised"
        /\ pc = "done" =>
              /\ ret.shape = ShapeButLast(a, 2) \o <<ShapeFromEnd(a, 2), ShapeFromEnd(b, 1)>>
              /\ BlocksAreProducts(ret, a, b)

C1_witness ==
    /\ C1_pre
    /\ pc = "done"
    /\ ndim(a) = 4
    /\ Count(a, 2) > 1
    /\ ShapeFromEnd(a, 2) # ShapeFromEnd(a, 1)

\* the case of C2: matching inner dimensions
C2_pre ==
    /\ fn = "matmat"
    /\ ShapeFromEnd(a, 1) = ShapeFromEnd(b, 2)

\* what matmat returned has the broadcast of the leading shapes, then (p, r)
C2_BroadcastResult ==
    pc = "done" =>
        ret.shape = BroadcastShape(ShapeButLast(a, 2), ShapeButLast(b, 2))
                        \o <<ShapeFromEnd(a, 2), ShapeFromEnd(b, 1)>>

\* one operand has rank 2 and the other rank 3
C2_ranks23 ==
    \/ ndim(a) = 2 /\ ndim(b) = 3
    \/ ndim(a) = 3 /\ ndim(b) = 2

\* C2 as stated: for broadcast-compatible leading shapes and matching inner
\* dimensions, the array matmat returns has the broadcast of the two leading
\* shapes followed by (p, r) as its shape.
C2_original ==
    (C2_pre /\ BroadcastOk(ShapeButLast(a, 2), ShapeButLast(b, 2))) => C2_BroadcastResult

\* C2 as amended: whenever matmat returns, its result has the shape L followed
\* by (p, r), where L is b's leading shape when a has rank 2 and b rank 3, and
\* a's leading shape otherwise; this is the broadcast of the two leading shapes
\* when they are equal or when one operand has rank 2 and the other rank 3,
\* and in these cases matmat does return.
C2_MatmatResultShape ==
    C2_pre =>
        /\ pc = "done" =>
              ret.shape = (IF ndim(a) = 2 /\ ndim(b) = 3
                           THEN ShapeButLast(b, 2) ELSE ShapeButLast(a, 2))
                              \o <<ShapeFromEnd(a, 2), ShapeFromEnd(b, 1)>>
        /\ (ShapeButLast(a, 2) = ShapeButLast(b, 2) \/ C2_ranks23) =>
              (pc # "raised" /\ C2_BroadcastResult)

\* two batched operands of different leading shapes: the result takes a's
C2_witness ==
    /\ C2_pre
    /\ pc = "done"
    /\ ndim(a) >= 3 /\ ndim(b) >= 3
    /\ ShapeButLast(a, 2) # ShapeButLast(b, 2)
    /\ BroadcastOk(ShapeButLast(a, 2), ShapeButLast(b, 2))
    /\ ret.shape[1] > 1

\* the cases of C3: exactly one operand is a single matrix, inner dimensions matching
C3_aLone ==
    /\ fn = "matmat"
    /\ ndim(a) = 2 /\ ndim(b) >= 3
    /\ ShapeFromEnd(a, 1) = ShapeFromEnd(b, 2)

C3_bLone ==
    /\ fn = "matmat"
    /\ ndim(a) >= 3 /\ ndim(b) = 2
    /\ ShapeFromEnd(a, 1) = ShapeFromEnd(b, 2)

\* matmat returns b's leading shape followed by (p, r), block i being a . b[i]
C3_aLoneResult ==
    /\ pc # "raised"
    /\ pc = "done" =>
          /\ ret.shape = ShapeButLast(b, 2) \o <<ShapeFromEnd(a, 2), ShapeFromEnd(b, 1)>>
          /\ \A i \in 0..(Count(b, 2) - 1) :
                Block(ret, i, 2) = NaiveMatMul(a, Block(b, i, 2))

\* matmat returns a's leading shape followed by (p, r), block i being a[i] . b
C3_bLoneResult ==
    /\ pc # "raised"
    /\ pc = "done" =>
          /\ ret.shape = ShapeButLast(a, 2) \o <<ShapeFromEnd(a, 2), ShapeFromEnd(b, 1)>>
          /\ \A i \in 0..(Count(a, 2) - 1) :
                Block(ret, i, 2) = NaiveMatMul(Block(a, i, 2), b)

\* C3 as stated: when exactly one operand of matmat is a single matrix and the
\* other a batch with any non-empty leading shape, matmat returns, the result
\* has the batch's leading shape, and its block at every batch index is the
\* product of the single matrix and that block, in the order of the operands.
C3_original ==
    /\ C3_aLone => C3_aLoneResult
    /\ C3_bLone => C3_bLoneResult

\* C3 as amended: the same, for a batch of rank 3 (one leading axis, of any
\* size): a[i] . b when b is the single matrix, a . b[i] when a is.
C3_LoneOperandRank3 ==
    /\ (C3_aLone /\ ndim(b) = 3) => C3_aLoneResult
    /\ (C3_bLone /\ ndim(a) = 3) => C3_bLoneResult

\* the transpose-multiply-transpose path returned for several blocks of a
\* shape that is not square
C3_witness ==
    /\ C3_aLone
    /\ ndim(b) = 3
    /\ pc = "done"
    /\ Count(b, 2) > 1
    /\ ShapeFromEnd(a, 2) # ShapeFromEnd(b, 1)
    /\ ShapeFromEnd(a, 2) # ShapeFromEnd(a, 1)

\* the case of C4: both operands batched, inner dimensions different
C4_pre ==
    /\ fn = "matmat"
    /\ ndim(a) >= 3 /\ ndim(b) >= 3
    /\ ShapeFromEnd(a, 1) # ShapeFromEnd(b, 2)

\* C4: for two batched operands whose inner dimensions differ, matmat raises
\* its ShapeError before any reshape or kernel invocation, and returns nothing.
C4_InnerMismatchRaises ==
    C4_pre =>
        /\ pc \in {"matmat", "raised"}
        /\ pc = "raised" => raisedBy = "matmat"
        /\ events = <<>>
        /\ a_contig = None /\ b_contig = None /\ kout = None /\ ret = None

C4_witness ==
    /\ C4_pre
    /\ pc = "raised"
    /\ ShapeButLast(a, 2) = ShapeButLast(b, 2)

\* the case of C5: both operands batched, inner dimensions matching, batch counts different
C5_pre ==
    \/ /\ fn = "matmat"
       /\ ndim(a) >= 3 /\ ndim(b) >= 3
       /\ ShapeFromEnd(a, 1) = ShapeFromEnd(b, 2)
       /\ Count(a, 2) # Count(b, 2)
    \/ /\ fn = "matvec"
       /\ ndim(matrices) >= 3 /\ ndim(vectors) >= 2
       /\ ShapeFromEnd(matrices, 1) = ShapeFromEnd(vectors, 1)
       /\ Count(matrices, 2) # Count(vectors, 1)

\* C5: when both operands of matmat (or of matvec) are batched with matching
\* inner dimensions but different flattened batch counts, the call raises
\* before the native batched kernel is invoked, and returns nothing.
C5_CountMismatchRaisesBeforeKernel ==
    C5_pre =>
        /\ ~InEvents("kernel")
        /\ pc # "done"
        /\ ret = None

\* the case of C6: trailing dimensions of matrices and vectors different
C6_pre ==
    /\ fn = "matvec"
    /\ ShapeFromEnd(matrices, 1) # ShapeFromEnd(vectors, 1)

\* C6: when the trailing dimensions of matrices and vectors differ, matvec
\* raises its ShapeError in each of the four dispatch cases, and no
\* multiplication (numpy.dot or native kernel) is performed.
C6_TrailingMismatchRaises ==
    C6_pre =>
        /\ pc \in {"matvec", "raised"}
        /\ pc = "raised" => raisedBy = "matvec_first"
        /\ events = <<>>
        /\ ret = None

\* the case the first check alone decides: only matrices is unbatched, where
\* numpy.dot would be called on matrices and vectors.T
C6_witness ==
    /\ C6_pre
    /\ pc = "raised"
    /\ ndim(matrices) = 2 /\ ndim(vectors) = 2

\* C7: when exactly one operand of matvec is unbatched and the other a batch
\* with any non-empty leading shape, matvec returns, the result has the
\* batch's leading shape followed by (p,), and its entry at every batch index
\* is the product of the matrix and the vector there; a single identity
\* matrix returns vectors unchanged.
C7_LoneOperand ==
    /\ (fn = "matvec" /\ ndim(matrices) = 2 /\ ndim(vectors) >= 2
            /\ ShapeFromEnd(matrices, 1) = ShapeFromEnd(vectors, 1)) =>
          /\ pc # "raised"
          /\ pc = "done" =>
                /\ ret.shape = ShapeButLast(vectors, 1) \o <<ShapeFromEnd(matrices, 2)>>
                /\ \A i \in 0..(Count(vectors, 1) - 1) :
                      Block(ret, i, 1) = NaiveMatVec(matrices, Block(vectors, i, 1))
                /\ matrices = Eye(ShapeFromEnd(matrices, 2)) => ret = vectors
    /\ (fn = "matvec" /\ ndim(matrices) >= 3 /\ ndim(vectors) = 1
            /\ ShapeFromEnd(matrices, 1) = ShapeFromEnd(vectors, 1)) =>
          /\ pc # "raised"
          /\ pc = "done" =>
                /\ ret.shape = ShapeButLast(matrices, 2) \o <<ShapeFromEnd(matrices, 2)>>
                /\ \A i \in 0..(Count(matrices, 2) - 1) :
                      Block(ret, i, 1) = NaiveMatVec(Block(matrices, i, 2), vectors)

\* the case of C8: both operands batched, trailing dimensions matching, batch counts equal
C8_pre ==
    /\ fn = "matvec"
    /\ ndim(matrices) >= 3 /\ ndim(vectors) >= 2
    /\ ShapeFromEnd(matrices, 1) = ShapeFromEnd(vectors, 1)
    /\ Count(matrices, 2) = Count(vectors, 1)

\* C8: matvec on batched matrices and batched vectors with matching trailing
\* dimensions and equal flattened batch counts returns; the result has
\* matrices' leading shape followed by (p,), and its entry at every flattened
\* batch index i is the product matrices[i] . vectors[i].
C8_MatvecBothBatched ==
    C8_pre =>
        /\ pc # "raised"
        /\ pc = "done" =>
              /\ ret.shape = ShapeButLast(matrices, 2) \o <<ShapeFromEnd(matrices, 2)>>
              /\ \A i \in 0..(Count(matrices, 2) - 1) :
                    Block(ret, i, 1) =
                        NaiveMatVec(Block(matrices, i, 2), Block(vectors, i, 1))

\* equal counts under different leading shapes, rows and columns different
C8_witness ==
    /\ C8_pre
    /\ pc = "done"
    /\ Count(matrices, 2) > 1
    /\ ShapeButLast(matrices, 2) # ShapeButLast(vectors, 1)
    /\ ShapeFromEnd(matrices, 2) # ShapeFromEnd(matrices, 1)

\* the case of C9: M has one more column than v has components
C9_pre ==
    /\ fn = "transform"
    /\ ShapeFromEnd(M, 1) = ShapeFromEnd(v, 1) + 1

\* C9: when M has one more column than v has components, transform(v, M, w)
\* passes v with the value w appended to every vector to matvec, and returns
\* M applied to these vectors, dehomogenized exactly when the product has one
\* more component than v.
C9_TransformAppendsW ==
    C9_pre =>
        /\ pc # "transform" => vectors = homogenize(v, w)
        /\ pc = "done" =>
              \A i \in 0..(Count(ret, 1) - 1) :
                  LET m  == IF ndim(M) = 2 THEN M ELSE Block(M, i, 2)
                      hv == homogenize(IF ndim(v) = 1 THEN v ELSE Block(v, i, 1), w)
                      mv == NaiveMatVec(m, hv)
                  IN  Block(ret, i, 1) =
                          IF ShapeFromEnd(M, 2) = ShapeFromEnd(v, 1) + 1
                          THEN dehomogenize(mv) ELSE mv

\* C10: the second compatibility check of matvec never raises, and every
\* execution that reaches the native batched kernel has
\* matrices.shape[-1] = vectors.shape[-1].
C10_SecondCheckNeverRaises ==
    /\ raisedBy # "matvec_second"
    /\ pc \in {"matvec_kernel", "matvec_return"} =>
          ShapeFromEnd(matrices, 1) = ShapeFromEnd(vectors, 1)

C10_witness ==
    /\ pc = "matvec_kernel"
    /\ InEvents("reshape")
    /\ ShapeFromEnd(matrices, 1) = ShapeFromEnd(vectors, 1)
    /\ ShapeFromEnd(matrices, 2) # ShapeFromEnd(matrices, 1)

====
